---- MODULE Spec2Model ----
(***************************************************************************)
(* A model of the Internal-Model-Consciousness-Simulator repository:       *)
(*   src/internal_model_simulator/{agent,environment,world_model}.py       *)
(*   src/main.py                                                           *)
(*   src/sim/{agent,environment,world_model,train}.py                      *)
(*                                                                         *)
(* Python floats are modelled as exact rationals <<n, d>> (d > 0, lowest   *)
(* terms); the bounds keep every numerator and denominator inside TLC's    *)
(* integers.  Random draws (random.random, random.randrange,               *)
(* random.choice, np.random) are nondeterministic    choices over every     *)
(* value the generator can return.                                         *)
(***************************************************************************)
EXTENDS Integers, Sequences, FiniteSets, TLC

VARIABLES
    h,          \* the driver of the run: which program runs, the calls it has made,
                \* and maxlen, the capacity the agent's deque was made with
    action_dim, \* Agent.action_dim
    q_table,    \* Agent.q_table: dict key -> list of action_dim floats
    memory,     \* Agent.memory: deque(maxlen) of (state, action, next_state)
    model,      \* Agent.model parameters, as the number of the parameter version
    optimizer,  \* Agent.optimizer state: the number of optimizer.step() calls made
    env,        \* GridWorld: size, ditch, agent, person, steps
    frame,      \* locals of main / run_episode and the position in their code
    qagent,     \* QLearningAgent: q, action_size, lr, gamma, epsilon (or None)
    wenv,       \* WorldEnv: agent position (tenths), step_ctr
    W,          \* LinearWorldModel: W, lr (or None)
    tframe,     \* locals of sim/train.py train and the position in its code
    call        \* the last method call the driver made: op, arguments, result

vars == <<h, action_dim, q_table, memory, model, optimizer, env, frame, qagent, wenv, W, tframe, call>>

agentVars == <<action_dim, q_table, memory, model, optimizer>>
gridVars == <<env, frame>>
simVars == <<wenv, W, tframe>>

\* an object that is not there (Python's None)
None == [none |-> TRUE]
IsNone(x) == x = None

\* the parts of the state a specification does not use
NoAgent == /\ action_dim = 0 /\ q_table = <<>> /\ memory = <<>>
           /\ model = 0 /\ optimizer = 0
NoGrid == env = None /\ frame = [pc |-> "none"]
NoSim == wenv = None /\ W = None /\ tframe = [pc |-> "none"]

(***************************************************************************)
(* Rational arithmetic (the floats of the program).                        *)
(***************************************************************************)
Abs(x) == IF x < 0 THEN -x ELSE x

RECURSIVE GCD(_, _)
GCD(a, b) == IF b = 0 THEN Abs(a) ELSE GCD(b, a % b)

Norm(n, d) ==
    LET g == GCD(Abs(n), Abs(d))
        s == IF d < 0 THEN -1 ELSE 1
    IN  <<(s * n) \div g, (s * d) \div g>>

R(n, d) == Norm(n, d)
Zero == <<0, 1>>
One == <<1, 1>>

RAdd(a, b) ==
    LET g == GCD(a[2], b[2])
    IN  Norm(a[1] * (b[2] \div g) + b[1] * (a[2] \div g), (a[2] \div g) * b[2])

RNeg(a) == <<-a[1], a[2]>>
RSub(a, b) == RAdd(a, RNeg(b))

RMul(a, b) ==
    LET g1 == GCD(Abs(a[1]), b[2])
        g2 == GCD(Abs(b[1]), a[2])
        h1 == IF g1 = 0 THEN 1 ELSE g1
        h2 == IF g2 = 0 THEN 1 ELSE g2
    IN  Norm((a[1] \div h1) * (b[1] \div h2), (a[2] \div h2) * (b[2] \div h1))

RLt(a, b) ==
    LET g == GCD(a[2], b[2])
    IN  a[1] * (b[2] \div g) < b[1] * (a[2] \div g)

RLe(a, b) == ~RLt(b, a)

\* functions over 0..n-1 stand for Python lists and numpy vectors
Indices(v) == DOMAIN v

\* max(list) / np.max(vector): the largest element
RECURSIVE MaxFrom(_, _, _)
MaxFrom(v, i, best) ==
    IF i \notin DOMAIN v THEN best
    ELSE MaxFrom(v, i + 1, IF RLt(best, v[i]) THEN v[i] ELSE best)

Max(v) == MaxFrom(v, 1, v[0])

(***************************************************************************)
(* internal_model_simulator/agent.py: Agent                                *)
(***************************************************************************)
maxlen == 10000
alpha == R(1, 10)
gamma == R(19, 20)
default_epsilon == R(1, 10)
default_batch_size == 32

\* [0.0] * self.action_dim
ZeroList(n) == [a \in 0..(n - 1) |-> Zero]

\* Agent._state_key: tuple(state)
_state_key(state) == [i \in 1..Len(state) |-> state[i]]

\* max(range(n), key=lambda a: q_values[a]): Python's max scans in order and
\* replaces its candidate only by a strictly larger key
RECURSIVE MaxByKeyFrom(_, _, _)
RECURSIVE MaxByKeyLastFrom(_, _, _)
MaxByKeyFrom(q_values, a, best) ==
    IF a \notin DOMAIN q_values THEN best
    ELSE MaxByKeyFrom(q_values, a + 1, IF RLt(q_values[best], q_values[a]) THEN a ELSE best)

\* a scan that also replaces its candidate by an equal key (the last maximum)
MaxByKeyLastFrom(q_values, a, best) ==
    IF a \notin DOMAIN q_values THEN best
    ELSE MaxByKeyLastFrom(q_values, a + 1,
                          IF RLe(q_values[best], q_values[a]) THEN a ELSE best)

MaxByKeyLast(q_values) == MaxByKeyLastFrom(q_values, 1, 0)

MaxByKey(q_values) == MaxByKeyFrom(q_values, 1, 0)

\* the outcomes of random.random() <= epsilon
DrawBelowOrEqual(epsilon) ==
    {b \in BOOLEAN : IF b THEN RLe(Zero, epsilon) ELSE RLt(epsilon, One)}

\* random.random() < epsilon, random.random() in [0, 1): the outcomes that can happen
DrawBelow(epsilon) == {b \in BOOLEAN : IF b THEN RLt(Zero, epsilon) ELSE RLt(epsilon, One)}

\* Agent.choose_action: the set of <<action, line of the return statement>> one
\* call can end with.  q_values = self.q_table.get(key) is None iff key is absent.
choose_action(table, n, state, epsilon) ==
    LET key == _state_key(state)
        rest == IF key \notin DOMAIN table
                THEN {<<a, 29>> : a \in 0..(n - 1)}
                ELSE {<<MaxByKey(table[key]), 30>>}
    IN  UNION {IF b THEN {<<a, 25>> : a \in 0..(n - 1)} ELSE rest
               : b \in DrawBelow(epsilon)}

\* dict with one more key
Put(table, key, value) ==
    [k \in DOMAIN table \cup {key} |-> IF k = key THEN value ELSE table[k]]

\* update_q with the bootstrap taken from the row of key, not of next_key
update_q_own_row(table, n, state, action, reward, next_state, al, ga) ==
    LET key == _state_key(state)
        next_key == _state_key(next_state)
        t1 == IF key \notin DOMAIN table THEN Put(table, key, ZeroList(n)) ELSE table
        t2 == IF next_key \notin DOMAIN t1 THEN Put(t1, next_key, ZeroList(n)) ELSE t1
        max_next == Max(t2[key])
        old == t2[key][action]
    IN  [t2 EXCEPT ![key][action] =
            RAdd(old, RMul(al, RSub(RAdd(reward, RMul(ga, max_next)), old)))]

\* update_q writing into a table that holds the rows of this call only
update_q_fresh_table(table, n, state, action, reward, next_state, al, ga) ==
    LET key == _state_key(state)
        next_key == _state_key(next_state)
        t1 == Put(<<>>, key, IF key \in DOMAIN table THEN table[key] ELSE ZeroList(n))
        t2 == IF next_key \notin DOMAIN t1
              THEN Put(t1, next_key, IF next_key \in DOMAIN table THEN table[next_key]
                                     ELSE ZeroList(n))
              ELSE t1
        max_next == Max(t2[next_key])
        old == t2[key][action]
    IN  [t2 EXCEPT ![key][action] =
            RAdd(old, RMul(al, RSub(RAdd(reward, RMul(ga, max_next)), old)))]

\* update_q adding alpha * target to the old value (the "- old" is lost)
update_q_no_decay(table, n, state, action, reward, next_state, al, ga) ==
    LET key == _state_key(state)
        next_key == _state_key(next_state)
        t1 == IF key \notin DOMAIN table THEN Put(table, key, ZeroList(n)) ELSE table
        t2 == IF next_key \notin DOMAIN t1 THEN Put(t1, next_key, ZeroList(n)) ELSE t1
        max_next == Max(t2[next_key])
        old == t2[key][action]
    IN  [t2 EXCEPT ![key][action] = RAdd(old, RMul(al, RAdd(reward, RMul(ga, max_next))))]

\* Agent.update_q: the table after the call
update_q(table, n, state, action, reward, next_state, al, ga) ==
    LET key == _state_key(state)
        next_key == _state_key(next_state)
        t1 == IF key \notin DOMAIN table THEN Put(table, key, ZeroList(n)) ELSE table
        t2 == IF next_key \notin DOMAIN t1 THEN Put(t1, next_key, ZeroList(n)) ELSE t1
        max_next == Max(t2[next_key])
        old == t2[key][action]
    IN  [t2 EXCEPT ![key][action] =
            RAdd(old, RMul(al, RSub(RAdd(reward, RMul(ga, max_next)), old)))]

\* an append that a full deque refuses (the newest item is lost)
DequeAppendKeepOld(d, item, n) == IF Len(d) >= n THEN d ELSE Append(d, item)

\* deque(maxlen=n).append: a full deque drops its oldest (leftmost) item
DequeAppend(d, item, n) ==
    IF n = 0 THEN d
    ELSE IF Len(d) >= n THEN Append(Tail(d), item)
    ELSE Append(d, item)

\* remember storing the transition end first: (next_state, action, state)
remember_reversed(mem, cap, state, action, next_state) ==
    DequeAppend(mem, <<next_state, action, state>>, cap)

\* Agent.remember: the memory after the call, cap being self.memory.maxlen
remember(mem, cap, state, action, next_state) ==
    DequeAppend(mem, <<state, action, next_state>>, cap)

\* an early return for an empty memory only
train_model_skips_empty(mem, batch_size) == Len(mem) = 0

\* Agent.train_model, line 47: the early return
train_model_skips(mem, batch_size) == Len(mem) < batch_size

\* Agent.train_model, lines 49-58: the outcomes of the call once past line 47.
\* A batch of one transition or more is sampled and one optimizer step made.  An
\* empty batch (batch_size = 0) builds states of shape (0,) and one-hot actions
\* of shape (0, action_dim): the forward pass either rejects the shapes (an
\* exception leaves train_model) or runs on to optimizer.step().
train_model_outcomes(mem, batch_size) ==
    IF train_model_skips(mem, batch_size) THEN {"returned"}
    ELSE IF batch_size = 0 THEN {"raised", "stepped"}
    ELSE {"stepped"}

\* Agent.train_model: "stepped" is one optimizer.step() on the parameters
TrainModel(batch_size, outcome) ==
    /\ outcome \in train_model_outcomes(memory, batch_size)
    /\ model' = IF outcome = "stepped" THEN model + 1 ELSE model
    /\ optimizer' = IF outcome = "stepped" THEN optimizer + 1 ELSE optimizer
    /\ UNCHANGED <<action_dim, q_table, memory>>

\* Agent.__init__: an empty table, an empty memory, fresh parameters
AgentInit(n) ==
    /\ action_dim = n
    /\ q_table = <<>>
    /\ memory = <<>>
    /\ model = 0
    /\ optimizer = 0

(***************************************************************************)
(* sim/agent.py: QLearningAgent.  A continuous state is a tuple of         *)
(* coordinates in hundredths; a key is the tuple rounded to one decimal,   *)
(* in tenths.                                                              *)
(***************************************************************************)
default_state_size == 2
default_action_size == 4
default_lr == R(1, 10)
default_gamma == R(19, 20)

\* np.round(x, 1): to the nearest tenth, a half going to the even tenth
Round1(x) ==
    LET q == x \div 10
        r == x % 10
    IN  IF r < 5 THEN q
        ELSE IF r > 5 THEN q + 1
        ELSE IF q % 2 = 0 THEN q ELSE q + 1

\* QLearningAgent.get_key
get_key(state) == [i \in 1..Len(state) |-> Round1(state[i])]

\* QLearningAgent.__init__: every argument is stored as given
QLearningAgent(state_size, action_size, lr, ga, epsilon) ==
    [q |-> <<>>, state_size |-> state_size, action_size |-> action_size,
     lr |-> lr, gamma |-> ga, epsilon |-> epsilon]

\* np.argmax: the first index of the largest element
argmax(v) == MaxByKey(v)

\* act without the store of line 21: the zero row is used and thrown away
act_no_store(self, state) ==
    LET key == get_key(state)
        q1 == IF key \notin DOMAIN self.q
              THEN Put(self.q, key, ZeroList(self.action_size)) ELSE self.q
    IN  UNION {IF b THEN {<<a, self, 18>> : a \in 0..(self.action_size - 1)}
                    ELSE {<<argmax(q1[key]), self, 22>>}
               : b \in DrawBelow(self.epsilon)}

\* QLearningAgent.act: the set of <<action, agent after the call, line of the
\* return statement>> one call can end with
act(self, state) ==
    LET key == get_key(state)
        q1 == IF key \notin DOMAIN self.q
              THEN Put(self.q, key, ZeroList(self.action_size)) ELSE self.q
    IN  UNION {IF b THEN {<<a, self, 18>> : a \in 0..(self.action_size - 1)}
                    ELSE {<<argmax(q1[key]), [self EXCEPT !.q = q1], 22>>}
               : b \in DrawBelow(self.epsilon)}

\* int(done)
int(b) == IF b THEN 1 ELSE 0

\* QLearningAgent.update: the agent after the call
update(self, state, action, reward, next_state, done) ==
    LET key == get_key(state)
        next_key == get_key(next_state)
        q1 == IF key \notin DOMAIN self.q
              THEN Put(self.q, key, ZeroList(self.action_size)) ELSE self.q
        q2 == IF next_key \notin DOMAIN q1
              THEN Put(q1, next_key, ZeroList(self.action_size)) ELSE q1
        target == RAdd(reward,
                       RMul(RMul(self.gamma, Max(q2[next_key])), R(1 - int(done), 1)))
        old == q2[key][action]
    IN  [self EXCEPT !.q = [q2 EXCEPT ![key][action] =
                               RAdd(old, RMul(self.lr, RSub(target, old)))]]

(***************************************************************************)
(* internal_model_simulator/environment.py: GridWorld.  A position is      *)
(* <<x, y>>.                                                               *)
(***************************************************************************)
default_size == 5
step_budget == 50

\* GridWorld.ACTIONS (a reserved word of TLA+)
Actions == (0 :> <<0, -1>>) @@ (1 :> <<0, 1>>) @@ (2 :> <<-1, 0>>)
           @@ (3 :> <<1, 0>>) @@ (4 :> <<0, 0>>)

min(a, b) == IF a < b THEN a ELSE b
max(a, b) == IF a > b THEN a ELSE b

\* GridWorld._get_state
_get_state(self) == <<self.agent[1], self.agent[2], self.person[1], self.person[2]>>

\* GridWorld.reset: the environment after the call (it returns _get_state of it)
reset(self) ==
    [self EXCEPT !.agent = <<0, 0>>, !.person = <<self.size \div 2, 0>>, !.steps = 0]

\* GridWorld.__init__
GridWorld(size) ==
    reset([size |-> size, ditch |-> <<size - 1, size - 1>>,
           agent |-> <<0, 0>>, person |-> <<0, 0>>, steps |-> 0])

\* GridWorld.step, line 48: the person stands on the ditch
OnDitch(self) == self.person = self.ditch

\* a move that does not stop at the walls
_move_unclamped(self, pos, action) ==
    <<pos[1] + Actions[action][1], pos[2] + Actions[action][2]>>

\* GridWorld._move
_move(self, pos, action) ==
    LET nx == pos[1] + Actions[action][1]
        ny == pos[2] + Actions[action][2]
    IN  <<max(0, min(self.size - 1, nx)), max(0, min(self.size - 1, ny))>>

\* GridWorld._person_move, the person's action being random.choice's draw
_person_move(self, drawn) == [self EXCEPT !.person = _move(self, self.person, drawn)]

\* a step that pays +1 when the person stands on the ditch
step_rewarding(self, action, drawn) ==
    LET e1 == [self EXCEPT !.agent = _move(self, self.agent, action)]
        e2 == _person_move(e1, drawn)
        hit == e2.person = e2.ditch
        e3 == [e2 EXCEPT !.steps = @ + 1]
    IN  <<e3, [state |-> _get_state(e3),
               reward |-> IF hit THEN One ELSE Zero,
               done |-> hit \/ e3.steps >= step_budget]>>

\* GridWorld.step: <<the environment after the call, the StepResult returned>>
step(self, action, drawn) ==
    LET e1 == [self EXCEPT !.agent = _move(self, self.agent, action)]
        e2 == _person_move(e1, drawn)
        hit == e2.person = e2.ditch
        e3 == [e2 EXCEPT !.steps = @ + 1]
    IN  <<e3, [state |-> _get_state(e3),
               reward |-> IF hit THEN RSub(Zero, One) ELSE Zero,
               done |-> hit \/ e3.steps >= step_budget]>>

(***************************************************************************)
(* main.py: run_episode.  frame holds its locals; frame.pc is the line the *)
(* call is at: "while" (line 10), "step" (12), "update_q" (14),            *)
(* "remember" (15), "train_model" (16), "advance" (17-18).  The local done *)
(* is assigned on line 9 only: the loop body never stores result.done, so  *)
(* the test of line 10 never fails and line 19 is never reached.           *)
(***************************************************************************)
\* line 13, if train: where the loop body goes on after env.step
after_step_untested(train) == "update_q"

after_step(train) == IF train THEN "update_q" ELSE "advance"

\* run_episode, lines 7-9
StartEpisode(train) ==
    /\ frame.pc = "idle"
    /\ env' = reset(env)
    /\ frame' = [pc |-> "while", train |-> train, state |-> _get_state(reset(env)),
                 total_reward |-> Zero, done |-> FALSE]
    /\ UNCHANGED <<h, agentVars, qagent, simVars, call>>

RunEpisode == h.prog = "episode" /\ \E train \in h.modes : StartEpisode(train)

\* lines 10-11: the loop test and agent.choose_action(state)
EpChoose ==
    /\ frame.pc = "while" /\ ~frame.done
    /\ env.steps < h.cap
    /\ \E r \in choose_action(q_table, action_dim, frame.state, default_epsilon) :
          frame' = [pc |-> "step", train |-> frame.train, state |-> frame.state,
                    total_reward |-> frame.total_reward, done |-> frame.done,
                    action |-> r[1]]
    /\ UNCHANGED <<h, agentVars, env, qagent, simVars, call>>

\* line 12: result = env.step(action)
EpStep ==
    /\ frame.pc = "step"
    /\ \E drawn \in DOMAIN Actions :
          LET r == step(env, frame.action, drawn)
          IN  /\ env' = r[1]
              /\ frame' = [pc |-> after_step(frame.train), train |-> frame.train,
                           state |-> frame.state,
                           total_reward |-> frame.total_reward, done |-> frame.done,
                           action |-> frame.action, result |-> r[2]]
    /\ UNCHANGED <<h, agentVars, qagent, simVars, call>>

\* line 14: agent.update_q(state, action, result.reward, result.state)
EpUpdateQ ==
    /\ frame.pc = "update_q"
    /\ q_table' = update_q(q_table, action_dim, frame.state, frame.action,
                           frame.result.reward, frame.result.state, alpha, gamma)
    /\ frame' = [frame EXCEPT !.pc = "remember"]
    /\ UNCHANGED <<h, action_dim, memory, model, optimizer, env, qagent, simVars, call>>

\* line 15: agent.remember(state, action, result.state)
EpRemember ==
    /\ frame.pc = "remember"
    /\ memory' = remember(memory, h.maxlen, frame.state, frame.action,
                          frame.result.state)
    /\ frame' = [frame EXCEPT !.pc = "train_model"]
    /\ UNCHANGED <<h, action_dim, q_table, model, optimizer, env, qagent, simVars, call>>

\* line 16: agent.train_model(); an exception leaves run_episode
EpTrainModel ==
    /\ frame.pc = "train_model"
    /\ \E outcome \in {"returned", "raised", "stepped"} :
          /\ TrainModel(default_batch_size, outcome)
          /\ frame' = [frame EXCEPT !.pc = IF outcome = "raised" THEN "raised"
                                           ELSE "advance"]
    /\ UNCHANGED <<h, env, qagent, simVars, call>>

\* lines 17-18: state = result.state; total_reward += result.reward
EpAdvance ==
    /\ frame.pc = "advance"
    /\ frame' = [pc |-> "while", train |-> frame.train, state |-> frame.result.state,
                 total_reward |-> RAdd(frame.total_reward, frame.result.reward),
                 done |-> frame.done]
    /\ UNCHANGED <<h, agentVars, env, qagent, simVars, call>>

(***************************************************************************)
(* Spec: one call of run_episode(env, agent, train), in either mode, on a  *)
(* GridWorld and an agent that is fresh (as main builds it) or has been    *)
(* used before; each run is followed for MaxSteps environment steps.       *)
(***************************************************************************)
MaxSteps == 2
main_action_dim == 5

GridSizes == {2, default_size}

NoCall == call = [op |-> "none"]

\* an agent used before: one value update towards a state with the person on
\* the ditch, and a memory one transition short of the default batch size
UsedTable(n, e) ==
    update_q(<<>>, n, _get_state(e), 0, RSub(Zero, One),
             <<0, 0, e.ditch[1], e.ditch[2]>>, alpha, gamma)

UsedMemory(e) ==
    [i \in 1..(default_batch_size - 1) |-> <<_get_state(e), 4, _get_state(e)>>]

Init ==
    /\ h = [prog |-> "episode", modes |-> BOOLEAN, cap |-> MaxSteps, calls |-> 0,
            maxlen |-> maxlen]
    /\ \E size \in GridSizes : env = GridWorld(size)
    /\ action_dim = main_action_dim
    /\ \/ q_table = <<>> /\ memory = <<>>
       \/ q_table = UsedTable(action_dim, env) /\ memory = UsedMemory(env)
    /\ model = 0
    /\ optimizer = 0
    /\ frame = [pc |-> "idle"]
    /\ qagent = None
    /\ NoSim
    /\ NoCall

Next ==
    \/ RunEpisode
    \/ EpChoose
    \/ EpStep
    \/ EpUpdateQ
    \/ EpRemember
    \/ EpTrainModel
    \/ EpAdvance

Spec == Init /\ [][Next]_vars

\* C1: in evaluation mode (run_episode called with train=False) no step of
\* the loop, choose_action included, changes the Q-table (keys and values),
\* the replay memory, the dynamics-model parameters or the optimizer state.
C1_EvalReadOnly ==
    [][(frame.pc # "idle" /\ ~frame.train) =>
          UNCHANGED <<q_table, memory, model, optimizer>>]_vars

\* an evaluation run on a used agent has completed a loop iteration
C1_Witness ==
    /\ frame.pc = "while" /\ ~frame.train
    /\ env.steps >= 1
    /\ q_table # <<>> /\ memory # <<>>

\* C8: a call of train_model made by a training episode while the memory
\* holds fewer than batch_size transitions returns normally and leaves the
\* parameters, the optimizer state, the memory and the Q-table as they were.
C8_ShortMemoryNoOp ==
    [][(frame.pc = "train_model" /\ Len(memory) < default_batch_size) =>
          /\ frame'.pc = "advance"
          /\ UNCHANGED <<q_table, memory, model, optimizer>>]_vars

\* the second call of train_model of a training episode has returned, the
\* memory holding two transitions
C8_Witness ==
    /\ frame.pc = "advance" /\ frame.train
    /\ env.steps = 2
    /\ Len(memory) = 2
    /\ model = 0 /\ optimizer = 0

(***************************************************************************)
(* sim/environment.py: WorldEnv, and the loop of sim/train.py.  Positions  *)
(* are <<x, y>> in hundredths.  pybullet is outside the repository: the    *)
(* body is where resetBasePositionAndOrientation puts it (stepSimulation   *)
(* is taken to leave x and y alone).                                       *)
(***************************************************************************)
sim_step_limit == 100
danger_radius == 50

\* WorldEnv.get_state
WorldEnv_get_state(self) == self.pos

\* WorldEnv.reset: the environment after the call
WorldEnv_reset(self) == [pos |-> <<0, 0>>, danger |-> <<200, 0>>, step_ctr |-> 0]

\* WorldEnv.__init__
WorldEnv == WorldEnv_reset(None)

\* WorldEnv.step, lines 37-38
WorldEnv_dx == (0 :> 0) @@ (1 :> 0) @@ (2 :> -10) @@ (3 :> 10)
WorldEnv_dy == (0 :> 10) @@ (1 :> -10) @@ (2 :> 0) @@ (3 :> 0)

\* np.linalg.norm(a - b) < r
Within(a, b, r) ==
    (a[1] - b[1]) * (a[1] - b[1]) + (a[2] - b[2]) * (a[2] - b[2]) < r * r

\* WorldEnv.step: <<the environment after the call, state, reward, done>>
WorldEnv_step(self, action) ==
    LET new_pos == <<self.pos[1] + WorldEnv_dx[action], self.pos[2] + WorldEnv_dy[action]>>
        e1 == [self EXCEPT !.pos = new_pos, !.step_ctr = @ + 1]
        near == Within(new_pos, self.danger, danger_radius)
    IN  <<e1, WorldEnv_get_state(e1),
          IF near THEN R(-101, 100) ELSE R(-1, 100),
          e1.step_ctr > sim_step_limit>>

\* the part of the plane the runs are followed in
ArenaMinX == 0
ArenaMaxX == 160
ArenaMaxY == 0
InArena(pos) ==
    /\ ArenaMinX <= pos[1] /\ pos[1] <= ArenaMaxX
    /\ -ArenaMaxY <= pos[2] /\ pos[2] <= ArenaMaxY

\* train, lines 14-17: the next episode begins
TrainStartEpisode ==
    /\ tframe.pc = "for" /\ tframe.ep < tframe.episodes
    /\ wenv' = WorldEnv_reset(wenv)
    /\ tframe' = [pc |-> "while", ep |-> tframe.ep, episodes |-> tframe.episodes,
                  rewards |-> tframe.rewards,
                  state |-> WorldEnv_get_state(WorldEnv_reset(wenv)),
                  ep_reward |-> Zero, done |-> FALSE]
    /\ UNCHANGED <<h, agentVars, gridVars, qagent, W, call>>

\* train, lines 18-19: the loop test and agent.act(state).  With the default
\* epsilon = 0.1 act can return every action in every state.
TrainAct ==
    /\ tframe.pc = "while" /\ ~tframe.done
    /\ \E action \in 0..(default_action_size - 1) :
          /\ InArena(WorldEnv_step(wenv, action)[2])
          /\ tframe' = [pc |-> "step", ep |-> tframe.ep, episodes |-> tframe.episodes,
                        rewards |-> tframe.rewards, state |-> tframe.state,
                        ep_reward |-> tframe.ep_reward, done |-> tframe.done,
                        action |-> action]
    /\ UNCHANGED <<h, agentVars, gridVars, qagent, wenv, W, call>>

\* train, line 20: next_state, reward, done, _ = env.step(action)
TrainStep ==
    /\ tframe.pc = "step"
    /\ LET r == WorldEnv_step(wenv, tframe.action)
       IN  /\ wenv' = r[1]
           /\ tframe' = [pc |-> "advance", ep |-> tframe.ep,
                         episodes |-> tframe.episodes, rewards |-> tframe.rewards,
                         state |-> tframe.state, ep_reward |-> tframe.ep_reward,
                         action |-> tframe.action,
                         next_state |-> r[2], reward |-> r[3], done |-> r[4]]
    /\ UNCHANGED <<h, agentVars, gridVars, qagent, W, call>>

\* train, lines 21-24: agent.update and model.update (the tables they write are
\* not followed in this loop), state = next_state, ep_reward += reward
TrainAdvance ==
    /\ tframe.pc = "advance"
    /\ tframe' = [pc |-> "while", ep |-> tframe.ep, episodes |-> tframe.episodes,
                  rewards |-> tframe.rewards, state |-> tframe.next_state,
                  ep_reward |-> RAdd(tframe.ep_reward, tframe.reward),
                  done |-> tframe.done]
    /\ UNCHANGED <<h, agentVars, gridVars, qagent, wenv, W, call>>

\* train, lines 18 and 27: the loop ends, rewards.append(ep_reward)
TrainEndEpisode ==
    /\ tframe.pc = "while" /\ tframe.done
    /\ tframe' = [pc |-> "for", ep |-> tframe.ep + 1, episodes |-> tframe.episodes,
                  rewards |-> Append(tframe.rewards, tframe.ep_reward)]
    /\ UNCHANGED <<h, agentVars, gridVars, qagent, wenv, W, call>>

\* train, lines 29-30: env.close(); return rewards
TrainReturn ==
    /\ tframe.pc = "for" /\ tframe.ep = tframe.episodes
    /\ tframe' = [pc |-> "returned", rewards |-> tframe.rewards]
    /\ UNCHANGED <<h, agentVars, gridVars, qagent, wenv, W, call>>

(***************************************************************************)
(* SpecEnv: the two episode loops followed past their step budgets: an     *)
(* evaluation run of run_episode on a small GridWorld with a fresh agent,  *)
(* and train(episodes) on WorldEnv with any policy.                        *)
(***************************************************************************)
MaxLongSteps == 52
MaxSimEpisodes == 1
LongGridSizes == {2}

InitEnv ==
    /\ \/ /\ h = [prog |-> "episode", modes |-> {FALSE}, cap |-> MaxLongSteps,
                   calls |-> 0, maxlen |-> maxlen]
          /\ \E size \in LongGridSizes : env = GridWorld(size)
          /\ AgentInit(main_action_dim)
          /\ frame = [pc |-> "idle"]
          /\ NoSim
       \/ /\ h = [prog |-> "train", calls |-> 0]
          /\ NoAgent /\ NoGrid
          /\ wenv = WorldEnv
          /\ W = None
          /\ \E episodes \in 1..MaxSimEpisodes :
                tframe = [pc |-> "for", ep |-> 0, episodes |-> episodes,
                          rewards |-> <<>>]
    /\ qagent = None
    /\ NoCall

NextEnv ==
    \/ RunEpisode
    \/ EpChoose
    \/ EpStep
    \/ EpAdvance
    \/ TrainStartEpisode
    \/ TrainAct
    \/ TrainStep
    \/ TrainAdvance
    \/ TrainEndEpisode
    \/ TrainReturn

SpecEnv == InitEnv /\ [][NextEnv]_vars

\* C4: every episode ends within its step budget: the loop of run_episode over
\* GridWorld makes at most 50 calls of env.step, the episode loop of train over
\* WorldEnv at most 100.
C4_StepBudget ==
    /\ h.prog = "episode" => env.steps <= step_budget
    /\ h.prog = "train" => wenv.step_ctr <= sim_step_limit

(***************************************************************************)
(* SpecMemory: any sequence of remember() calls on an agent whose deque    *)
(* has a small capacity (main's agent has maxlen, which no run of the      *)
(* model can fill), up to MaxExtraPushes calls more than the capacity.     *)
(* h.log is the list of every transition pushed so far.                    *)
(***************************************************************************)
MemoryCapacity == 3
MaxExtraPushes == 3

MemoryInputs ==
    {<<<<0, 0, 2, 0>>, 4, <<0, 0, 2, 0>>>>,
     <<<<0, 0, 2, 0>>, 1, <<0, 1, 2, 1>>>>,
     <<<<0, 1, 2, 1>>, 3, <<1, 1, 2, 0>>>>}

InitMemory ==
    /\ h = [prog |-> "memory", calls |-> 0, maxlen |-> MemoryCapacity, log |-> <<>>]
    /\ AgentInit(main_action_dim)
    /\ qagent = None
    /\ NoGrid /\ NoSim /\ NoCall

MemoryRemember ==
    /\ h.prog = "memory" /\ h.calls < h.maxlen + MaxExtraPushes
    /\ \E t \in MemoryInputs :
          /\ memory' = remember(memory, h.maxlen, t[1], t[2], t[3])
          /\ h' = [h EXCEPT !.calls = @ + 1, !.log = Append(@, t)]
    /\ UNCHANGED <<action_dim, q_table, model, optimizer, qagent, gridVars, simVars, call>>

NextMemory == MemoryRemember

SpecMemory == InitMemory /\ [][NextMemory]_vars

\* C3: the replay memory never holds more than its capacity, and after any
\* number of pushes it holds the latest min(pushes, capacity) transitions
\* pushed, in the order they were pushed (the oldest are the ones evicted).
C3_BoundedFifo ==
    h.prog = "memory" =>
        /\ Len(memory) <= h.maxlen
        /\ Len(memory) = min(Len(h.log), h.maxlen)
        /\ \A i \in 1..Len(memory) :
              memory[i] = h.log[Len(h.log) - Len(memory) + i]

\* two transitions more than the capacity have been pushed, the evicted ones
\* differing from the ones that took their places
C3_Witness ==
    /\ h.prog = "memory" /\ Len(h.log) = h.maxlen + 2
    /\ h.log[1] # h.log[h.maxlen + 1]
    /\ h.log[2] # h.log[h.maxlen + 2]

(***************************************************************************)
(* The method-level driver: one object, Agent or QLearningAgent, and any   *)
(* sequence of calls of its public methods with arguments from small sets. *)
(***************************************************************************)
MaxCalls == 2

ActionDims == {3}
GridInputs == {<<0, 0, 2, 0>>, <<0, 1, 2, 1>>}
SimInputs == {<<4, 0>>, <<15, 0>>}
RewardInputs == {R(-1, 1), Zero, One}
EpsilonInputs == {Zero, R(1, 10), R(3, 2)}
BatchInputs == {0, 1, 2, 32}



InitApi ==
    /\ h \in [prog : {"api"}, target : {"Agent", "QLearningAgent"}, calls : {0},
               maxlen : {maxlen}]
    /\ IF h.target = "Agent" THEN \E n \in ActionDims : AgentInit(n) ELSE NoAgent
    /\ qagent = None
    /\ NoCall
    /\ NoGrid /\ NoSim

Called == h' = [h EXCEPT !.calls = @ + 1]
CanCall(target) == h.prog = "api" /\ h.target = target /\ h.calls < MaxCalls

ApiUpdateQ ==
    /\ CanCall("Agent")
    /\ \E state \in GridInputs, next_state \in GridInputs,
          action \in 0..(action_dim - 1), reward \in RewardInputs :
          /\ q_table' = update_q(q_table, action_dim, state, action, reward,
                                 next_state, alpha, gamma)
          /\ call' = [op |-> "update_q", state |-> state, action |-> action,
                      reward |-> reward, next_state |-> next_state]
    /\ Called
    /\ UNCHANGED <<action_dim, memory, model, optimizer, qagent, env, frame, simVars>>

ApiChooseAction ==
    /\ CanCall("Agent")
    /\ \E state \in GridInputs, epsilon \in EpsilonInputs :
          \E r \in choose_action(q_table, action_dim, state, epsilon) :
             call' = [op |-> "choose_action", state |-> state,
                      epsilon |-> epsilon, ret |-> r[1], line |-> r[2]]
    /\ Called
    /\ UNCHANGED <<agentVars, qagent, gridVars, simVars>>

\* the same call once more, straight after the first
ApiChooseActionAgain ==
    /\ h.prog = "api" /\ h.target = "Agent"
    /\ call.op = "choose_action"
    /\ \E r \in choose_action(q_table, action_dim, call.state, call.epsilon) :
          call' = [op |-> "choose_action_again", state |-> call.state,
                   epsilon |-> call.epsilon, ret |-> call.ret, line |-> call.line,
                   ret2 |-> r[1], line2 |-> r[2]]
    /\ UNCHANGED <<h, agentVars, qagent, gridVars, simVars>>

ApiRemember ==
    /\ CanCall("Agent")
    /\ \E state \in GridInputs, next_state \in GridInputs, action \in 0..(action_dim - 1) :
          /\ memory' = remember(memory, h.maxlen, state, action, next_state)
          /\ call' = [op |-> "remember", state |-> state, action |-> action,
                      next_state |-> next_state]
    /\ Called
    /\ UNCHANGED <<action_dim, q_table, model, optimizer, qagent, gridVars, simVars>>

ApiTrainModel ==
    /\ CanCall("Agent")
    /\ \E batch_size \in BatchInputs, outcome \in {"returned", "raised", "stepped"} :
          /\ TrainModel(batch_size, outcome)
          /\ call' = [op |-> "train_model", batch_size |-> batch_size,
                      outcome |-> outcome]
    /\ Called
    /\ UNCHANGED <<qagent, gridVars, simVars>>

ApiConstruct ==
    /\ h.prog = "api" /\ h.target = "QLearningAgent" /\ IsNone(qagent)
    /\ \E n \in ActionDims, epsilon \in EpsilonInputs :
          /\ qagent' = QLearningAgent(default_state_size, n, default_lr,
                                      default_gamma, epsilon)
          /\ call' = [op |-> "QLearningAgent", epsilon |-> epsilon]
    /\ UNCHANGED <<h, agentVars, gridVars, simVars>>

ApiAct ==
    /\ CanCall("QLearningAgent") /\ ~IsNone(qagent)
    /\ \E state \in SimInputs :
          \E r \in act(qagent, state) :
             /\ qagent' = r[2]
             /\ call' = [op |-> "act", state |-> state, ret |-> r[1], line |-> r[3]]
    /\ Called
    /\ UNCHANGED <<agentVars, gridVars, simVars>>

ApiActAgain ==
    /\ h.prog = "api" /\ h.target = "QLearningAgent" /\ ~IsNone(qagent)
    /\ call.op = "act"
    /\ \E r \in act(qagent, call.state) :
          /\ qagent' = r[2]
          /\ call' = [op |-> "act_again", state |-> call.state, ret |-> call.ret,
                      line |-> call.line, ret2 |-> r[1], line2 |-> r[3]]
    /\ UNCHANGED <<h, agentVars, gridVars, simVars>>

ApiUpdate ==
    /\ CanCall("QLearningAgent") /\ ~IsNone(qagent)
    /\ \E state \in SimInputs, next_state \in SimInputs,
          action \in 0..(qagent.action_size - 1), reward \in RewardInputs,
          done \in BOOLEAN :
          /\ qagent' = update(qagent, state, action, reward, next_state, done)
          /\ call' = [op |-> "update", state |-> state, action |-> action,
                      reward |-> reward, next_state |-> next_state, done |-> done]
    /\ Called
    /\ UNCHANGED <<agentVars, gridVars, simVars>>

NextApi ==
    \/ ApiUpdateQ
    \/ ApiChooseAction
    \/ ApiChooseActionAgain
    \/ ApiRemember
    \/ ApiTrainModel
    \/ ApiConstruct
    \/ ApiAct
    \/ ApiActAgain
    \/ ApiUpdate

SpecApi == InitApi /\ [][NextApi]_vars

(***************************************************************************)
(* Claims about the method-level driver (SpecApi).                         *)
(***************************************************************************)
\* the step just taken was a call of op
JustCalled(op) == call'.op = op /\ h'.calls = h.calls + 1

\* the largest value stored in a vector
VecMax(v) == CHOOSE m \in {v[a] : a \in DOMAIN v} : \A a \in DOMAIN v : RLe(v[a], m)

\* new is old after one temporal-difference update of [key][action]: absent rows
\* of key and next_key count as zero vectors and are created, the entry becomes
\* o + al * (reward + ga * max(row of next_key) - o), nothing else changes
TDRule(old, new, n, key, next_key, action, reward, al, ga) ==
    LET base(k) == IF k \in DOMAIN old THEN old[k] ELSE ZeroList(n)
        o == base(key)[action]
        target == RAdd(reward, RMul(ga, VecMax(base(next_key))))
    IN  /\ DOMAIN new = DOMAIN old \cup {key, next_key}
        /\ \A k \in DOMAIN new : \A a \in 0..(n - 1) :
              new[k][a] = IF k = key /\ a = action
                          THEN RAdd(o, RMul(al, RSub(target, o)))
                          ELSE base(k)[a]

UpdateQFollowsRule ==
    JustCalled("update_q") =>
        TDRule(q_table, q_table', action_dim, _state_key(call'.state),
               _state_key(call'.next_state), call'.action, call'.reward, alpha, gamma)

UpdateFollowsRule(masked) ==
    JustCalled("update") =>
        TDRule(qagent.q, qagent'.q, qagent.action_size, get_key(call'.state),
               get_key(call'.next_state), call'.action, call'.reward, qagent.lr,
               IF masked /\ call'.done THEN Zero ELSE qagent.gamma)

\* C2 as claimed: every call of Agent.update_q and of QLearningAgent.update, the
\* call of the step that reports done included, sets Q[key][action] to
\* old + alpha * (reward + gamma * max(Q[next_key]) - old), creates absent rows
\* as zero vectors and changes no other entry.
C2_Original == [][UpdateQFollowsRule /\ UpdateFollowsRule(FALSE)]_vars

\* C2 as amended: Agent.update_q follows the rule on every call;
\* QLearningAgent.update follows it when done is false and uses the target
\* reward alone (no bootstrap term) when done is true.
C2_Amended == [][UpdateQFollowsRule /\ UpdateFollowsRule(TRUE)]_vars

\* a call of update with done = True whose next_key row has a non-zero maximum
C2_Witness ==
    /\ call.op = "update" /\ call.done
    /\ get_key(call.state) # get_key(call.next_state)
    /\ VecMax(qagent.q[get_key(call.next_state)]) # Zero

\* the smallest index at which a vector has its largest value
LowestArgmax(v) ==
    CHOOSE a \in DOMAIN v :
        /\ v[a] = VecMax(v)
        /\ \A b \in DOMAIN v : b < a => v[b] # VecMax(v)

\* the row a lookup of key sees: the stored one, or zeros for an unseen key
RowOf(table, n, key) == IF key \in DOMAIN table THEN table[key] ELSE ZeroList(n)

TwiceSame(row) == call.ret = call.ret2 /\ call.ret = LowestArgmax(row)

C6_LowestArgmax ==
    /\ (call.op = "choose_action" /\ call.line = 30)
          => call.ret = LowestArgmax(q_table[_state_key(call.state)])
    /\ (call.op = "act" /\ call.line = 22)
          => call.ret = LowestArgmax(qagent.q[get_key(call.state)])

\* an exploiting call on a row whose maximum is at two indices, neither of them 0
C6_Witness ==
    /\ call.op = "choose_action" /\ call.line = 30
    /\ LET row == q_table[_state_key(call.state)]
       IN  /\ row[0] # VecMax(row)
           /\ Cardinality({a \in DOMAIN row : row[a] = VecMax(row)}) >= 2

\* a row created by the step is a zero vector, but for the entry an update wrote
NewRowsZero(old, new, written) ==
    \A k \in DOMAIN new \ DOMAIN old : \A a \in DOMAIN new[k] :
        new[k][a] # Zero => <<k, a>> \in written

\* the rows the step did not handle are as they were and no row is lost
OtherRowsKept(old, new, handled) ==
    /\ DOMAIN old \subseteq DOMAIN new
    /\ DOMAIN new \ DOMAIN old \subseteq handled
    /\ \A k \in DOMAIN old \ handled : new[k] = old[k]

UpdatingPathCreates ==
    /\ JustCalled("update_q") =>
          LET key == _state_key(call'.state)
              next_key == _state_key(call'.next_state)
          IN  /\ {key, next_key} \subseteq DOMAIN q_table'
              /\ NewRowsZero(q_table, q_table', {<<key, call'.action>>})
              /\ OtherRowsKept(q_table, q_table', {key, next_key})
    /\ JustCalled("update") =>
          LET key == get_key(call'.state)
              next_key == get_key(call'.next_state)
          IN  /\ {key, next_key} \subseteq DOMAIN qagent'.q
              /\ NewRowsZero(qagent.q, qagent'.q, {<<key, call'.action>>})
              /\ OtherRowsKept(qagent.q, qagent'.q, {key, next_key})

ActCreates ==
    JustCalled("act") =>
        LET key == get_key(call'.state)
        IN  /\ call'.line = 22 => key \in DOMAIN qagent'.q
            /\ NewRowsZero(qagent.q, qagent'.q, {})
            /\ OtherRowsKept(qagent.q, qagent'.q, IF call'.line = 22 THEN {key} ELSE {})

C9_EmptyBatchNoOp ==
    [][(JustCalled("train_model") /\ call'.batch_size = 0) =>
          /\ call'.outcome # "raised"
          /\ model' = model
          /\ optimizer' = optimizer]_vars

InUnitInterval(x) == RLe(Zero, x) /\ RLe(x, One)

\* C10: no agent exists and no action is chosen with an epsilon outside
\* [0, 1]: such a configuration is refused at construction.
C10_ValidatedConfig ==
    /\ ~IsNone(qagent) => InUnitInterval(qagent.epsilon)
    /\ call.op = "choose_action" => InUnitInterval(call.epsilon)
    /\ call.op = "act" => InUnitInterval(qagent.epsilon)

(***************************************************************************)
(* sim/world_model.py: LinearWorldModel.  W is an action_size x state_size *)
(* matrix of floats; a state is a tuple of coordinates in hundredths.      *)
(***************************************************************************)
default_model_lr == R(1, 100)

\* np.zeros(n)
ZeroVector(n) == [i \in 1..n |-> Zero]

\* LinearWorldModel.__init__
LinearWorldModel(state_size, action_size, lr) ==
    [W |-> [a \in 0..(action_size - 1) |-> ZeroVector(state_size)], lr |-> lr]

\* LinearWorldModel.predict: state + self.W[action], a new vector
LinearWorldModel_predict(self, state, action) ==
    [i \in 1..Len(state) |-> RAdd(R(state[i], 1), self.W[action][i])]

\* an update that adds lr * error to every row of W
LinearWorldModel_update_all_rows(self, state, action, next_state) ==
    LET pred == LinearWorldModel_predict(self, state, action)
        error == [i \in 1..Len(state) |-> RSub(R(next_state[i], 1), pred[i])]
    IN  [self EXCEPT !.W = [a \in DOMAIN self.W |->
            [i \in 1..Len(state) |-> RAdd(self.W[a][i], RMul(self.lr, error[i]))]]]

\* an update that steps away from the error: W[action] -= lr * error
LinearWorldModel_update_away(self, state, action, next_state) ==
    LET pred == LinearWorldModel_predict(self, state, action)
        error == [i \in 1..Len(state) |-> RSub(R(next_state[i], 1), pred[i])]
    IN  [self EXCEPT !.W[action] =
            [i \in 1..Len(state) |-> RSub(self.W[action][i], RMul(self.lr, error[i]))]]

\* LinearWorldModel.update: the model after the call
LinearWorldModel_update(self, state, action, next_state) ==
    LET pred == LinearWorldModel_predict(self, state, action)
        error == [i \in 1..Len(state) |-> RSub(R(next_state[i], 1), pred[i])]
    IN  [self EXCEPT !.W[action] =
            [i \in 1..Len(state) |-> RAdd(self.W[action][i], RMul(self.lr, error[i]))]]

\* Agent.predict_next_state: the network's output for (state, action) under the
\* parameters it has, named by what it is computed from; model.eval() and
\* torch.no_grad() store no parameter
predict_next_state(params, state, action) ==
    [forward |-> params, state |-> state, action |-> action]

(***************************************************************************)
(* SpecModel: the operations around the two dynamics models, called in any *)
(* order: an Agent with its GridWorld (choose_action, update_q, remember,  *)
(* train_model, predict_next_state, env.reset, env.step) or a              *)
(* LinearWorldModel (predict, update).                                     *)
(***************************************************************************)
ModelGridSizes == {2}
ModelActions == {0, 3}

\* the offset WorldEnv.step adds to the position for each action
Offset(action) == <<WorldEnv_dx[action], WorldEnv_dy[action]>>

\* the transitions train feeds: next_state = state + Offset(action)
Shifted(state, action) == [i \in 1..Len(state) |-> state[i] + Offset(action)[i]]

InitModel ==
    /\ h \in [prog : {"api"}, target : {"Agent", "LinearWorldModel"}, calls : {0},
               maxlen : {maxlen}]
    /\ qagent = None
    /\ NoCall
    /\ wenv = None /\ tframe = [pc |-> "none"]
    /\ frame = [pc |-> "none"]
    /\ IF h.target = "Agent"
       THEN /\ \E n \in ActionDims : AgentInit(n)
            /\ \E size \in ModelGridSizes : env = GridWorld(size)
            /\ W = None
       ELSE /\ NoAgent
            /\ env = None
            /\ W = LinearWorldModel(default_state_size, default_action_size,
                                    default_model_lr)

ApiPredictNextState ==
    /\ CanCall("Agent")
    /\ \E state \in GridInputs, action \in 0..(action_dim - 1) :
          call' = [op |-> "predict_next_state", state |-> state, action |-> action,
                   ret |-> predict_next_state(model, state, action)]
    /\ Called
    /\ UNCHANGED <<agentVars, qagent, gridVars, simVars>>

ApiEnvReset ==
    /\ CanCall("Agent") /\ ~IsNone(env)
    /\ env' = reset(env)
    /\ call' = [op |-> "reset", ret |-> _get_state(reset(env))]
    /\ Called
    /\ UNCHANGED <<agentVars, qagent, frame, simVars>>

ApiEnvStep ==
    /\ CanCall("Agent") /\ ~IsNone(env)
    /\ \E action \in DOMAIN Actions, drawn \in DOMAIN Actions :
          LET r == step(env, action, drawn)
          IN  /\ env' = r[1]
              /\ call' = [op |-> "step", action |-> action, ret |-> r[2]]
    /\ Called
    /\ UNCHANGED <<agentVars, qagent, frame, simVars>>

ApiModelPredict ==
    /\ CanCall("LinearWorldModel")
    /\ \E state \in SimInputs, action \in ModelActions :
          call' = [op |-> "predict", state |-> state, action |-> action,
                   ret |-> LinearWorldModel_predict(W, state, action)]
    /\ Called
    /\ UNCHANGED <<agentVars, qagent, gridVars, simVars>>

ApiModelUpdate ==
    /\ CanCall("LinearWorldModel")
    /\ \E state \in SimInputs, action \in ModelActions :
          \E next_state \in {Shifted(state, action)} \cup SimInputs :
             /\ W' = LinearWorldModel_update(W, state, action, next_state)
             /\ call' = [op |-> "model_update", state |-> state, action |-> action,
                         next_state |-> next_state]
    /\ Called
    /\ UNCHANGED <<agentVars, qagent, gridVars, wenv, tframe>>

NextModel ==
    \/ ApiChooseAction
    \/ ApiUpdateQ
    \/ ApiRemember
    \/ ApiTrainModel
    \/ ApiPredictNextState
    \/ ApiEnvReset
    \/ ApiEnvStep
    \/ ApiModelPredict
    \/ ApiModelUpdate

SpecModel == InitModel /\ [][NextModel]_vars

\* C13: the dynamics-model parameters are changed by a training step only.
\* Agent: the parameters change only in a train_model call that reaches
\* optimizer.step(); predict_next_state returns the network's output under the
\* parameters it finds and leaves them alone, as do choose_action, update_q,
\* remember, env.reset and env.step.  LinearWorldModel: predict returns
\* state + W[action] and leaves W alone; only update changes W, and only its
\* row W[action].
C13_OnlyTrainingWrites ==
    [][/\ model' # model => JustCalled("train_model") /\ call'.outcome = "stepped"
       /\ JustCalled("predict_next_state") =>
             /\ UNCHANGED <<model, optimizer>>
             /\ call'.ret = predict_next_state(model', call'.state, call'.action)
       /\ JustCalled("predict") =>
             /\ W' = W
             /\ \A i \in 1..Len(call'.state) :
                   call'.ret[i] = RAdd(R(call'.state[i], 1), W'.W[call'.action][i])
       /\ W' # W =>
             /\ JustCalled("model_update")
             /\ W'.lr = W.lr
             /\ \A a \in DOMAIN W.W : a # call'.action => W'.W[a] = W.W[a]]_vars

\* the second call is an update of one row of W, the first having written
\* another row: the other row is still what the first call made it
C13_Witness ==
    /\ call.op = "model_update" /\ h.calls = 2
    /\ W.W[call.action] # ZeroVector(default_state_size)
    /\ \E a \in DOMAIN W.W : a # call.action /\ W.W[a] # ZeroVector(default_state_size)

\* c[action] - W[action], c being the offset of the action
OffsetError(self, action) ==
    [i \in 1..default_state_size |-> RSub(R(Offset(action)[i], 1), self.W[action][i])]

\* y is x shrunk by the factor 1 - lr, and lies between 0 and x
Shrunk(x, y, lr) ==
    /\ y = RMul(RSub(One, lr), x)
    /\ \/ RLe(Zero, y) /\ RLe(y, x)
       \/ RLe(x, y) /\ RLe(y, Zero)

MaxUpdates == 6
TDAlphas == {R(1, 10), R(1, 2), R(9, 10)}

InitTD ==
    /\ \E target \in {"Agent", "QLearningAgent"}, al \in TDAlphas, action \in 0..2 :
          /\ h = [prog |-> "td", target |-> target, calls |-> 0, maxlen |-> maxlen,
                  alpha |-> al, action |-> action]
          /\ IF target = "Agent"
             THEN /\ \E n \in ActionDims : AgentInit(n)
                  /\ qagent = None
             ELSE /\ NoAgent
                  /\ \E n \in ActionDims :
                        qagent = QLearningAgent(default_state_size, n, al, Zero,
                                                default_epsilon)
    /\ NoCall
    /\ NoGrid /\ NoSim

\* agent.update_q(s, a, 1, s, alpha, gamma=0)
TDUpdateQ ==
    /\ h.prog = "td" /\ h.target = "Agent" /\ h.calls < MaxUpdates
    /\ \E state \in IF h.calls = 0 THEN GridInputs ELSE {call.state} :
          /\ q_table' = update_q(q_table, action_dim, state, h.action, One, state,
                                 h.alpha, Zero)
          /\ call' = [op |-> "update_q", state |-> state, action |-> h.action,
                      reward |-> One, next_state |-> state]
    /\ Called
    /\ UNCHANGED <<action_dim, memory, model, optimizer, qagent, gridVars, simVars>>

\* agent.update(s, a, 1, s, done), the agent made with gamma = 0
TDUpdate ==
    /\ h.prog = "td" /\ h.target = "QLearningAgent" /\ h.calls < MaxUpdates
    /\ \E state \in IF h.calls = 0 THEN SimInputs ELSE {call.state}, done \in BOOLEAN :
          /\ qagent' = update(qagent, state, h.action, One, state, done)
          /\ call' = [op |-> "update", state |-> state, action |-> h.action,
                      reward |-> One, next_state |-> state, done |-> done]
    /\ Called
    /\ UNCHANGED <<agentVars, gridVars, simVars>>

NextTD ==
    \/ TDUpdateQ
    \/ TDUpdate

SpecTD == InitTD /\ [][NextTD]_vars

\* Q[s][a] of the agent under test, 0 while the row does not exist
TDValue(table, agent) ==
    IF h.target = "Agent"
    THEN RowOf(table, action_dim, _state_key(call'.state))[h.action]
    ELSE RowOf(agent.q, agent.action_size, get_key(call'.state))[h.action]

MaxGridCalls == 4
SmallGridSizes == {2, 3}

InitGrid ==
    /\ h = [prog |-> "grid", calls |-> 0]
    /\ \E size \in SmallGridSizes : env = GridWorld(size)
    /\ frame = [pc |-> "none"]
    /\ NoAgent
    /\ qagent = None
    /\ NoSim /\ NoCall

GridReset ==
    /\ h.prog = "grid" /\ h.calls < MaxGridCalls
    /\ env' = reset(env)
    /\ call' = [op |-> "reset", before |-> _get_state(env),
                ret |-> _get_state(reset(env))]
    /\ Called
    /\ UNCHANGED <<agentVars, qagent, frame, simVars>>

GridStep ==
    /\ h.prog = "grid" /\ h.calls < MaxGridCalls
    /\ \E action \in DOMAIN Actions, drawn \in DOMAIN Actions :
          LET r == step(env, action, drawn)
          IN  /\ env' = r[1]
              /\ call' = [op |-> "step", before |-> _get_state(env),
                          action |-> action, ret |-> r[2]]
    /\ Called
    /\ UNCHANGED <<agentVars, qagent, frame, simVars>>

NextGrid ==
    \/ GridReset
    \/ GridStep

SpecGrid == InitGrid /\ [][NextGrid]_vars

\* both coordinates of a position are within [0, size - 1]
InGrid(self, pos) ==
    /\ 0 <= pos[1] /\ pos[1] <= self.size - 1
    /\ 0 <= pos[2] /\ pos[2] <= self.size - 1

\* q is p or a cell next to p along one axis
AtMostOneCell(p, q) == Abs(p[1] - q[1]) + Abs(p[2] - q[2]) <= 1

\* q is where a move by delta from p ends: the cell aimed at when it is in the
\* grid, p itself when the wall is in the way
EndsAt(self, p, delta, q) ==
    LET aim == <<p[1] + delta[1], p[2] + delta[2]>>
    IN  q = IF InGrid(self, aim) THEN aim ELSE p

\* C18: after reset() and any sequence of step(action) calls with actions in
\* 0..4 the agent and the person are inside the grid (a move into a wall
\* leaves the entity where it is), each of them moves by at most one cell
\* along one axis per step, and the state returned is (agent x, agent y,
\* person x, person y) of the positions after the move.
C18_GridBounds ==
    [][h.prog = "grid" =>
          /\ InGrid(env', env'.agent) /\ InGrid(env', env'.person)
          /\ call'.op = "step" =>
                /\ AtMostOneCell(env.agent, env'.agent)
                /\ AtMostOneCell(env.person, env'.person)
                /\ EndsAt(env, env.agent, Actions[call'.action], env'.agent)
                /\ \E drawn \in DOMAIN Actions :
                      EndsAt(env, env.person, Actions[drawn], env'.person)
                /\ call'.ret.state = <<env'.agent[1], env'.agent[2],
                                       env'.person[1], env'.person[2]>>
          /\ call'.op = "reset" =>
                call'.ret = <<env'.agent[1], env'.agent[2],
                              env'.person[1], env'.person[2]>>]_vars

\* a step to the right by an agent standing at the right wall, away from the
\* cell reset puts it in, the person moving in the same step
C18_Witness ==
    /\ h.prog = "grid" /\ call.op = "step" /\ call.action = 3
    /\ call.before[1] = env.size - 1 /\ env.agent = <<env.size - 1, call.before[2]>>
    /\ env.agent # <<0, 0>>
    /\ env.person # <<call.before[3], call.before[4]>>

(***************************************************************************)
(* Further claims about run_episode (Spec).                                *)
(***************************************************************************)
\* C11: the agent's learned state outlives episodes: the env.reset() that
\* opens an episode changes none of the Q-table, the replay memory, the model
\* parameters and the optimizer state of an agent used before, and no step of
\* the run removes a key from the Q-table.
C11_LearnedStatePersists ==
    [][/\ frame.pc = "idle" => UNCHANGED <<q_table, memory, model, optimizer>>
       /\ DOMAIN q_table \subseteq DOMAIN q_table']_vars

\* a training episode on a used agent has added a key to the two the table had
\* and a transition to the memory
C11_Witness ==
    /\ frame.pc = "advance" /\ frame.train
    /\ Len(memory) = default_batch_size
    /\ DOMAIN UsedTable(action_dim, reset(env)) \subseteq DOMAIN q_table
    /\ Cardinality(DOMAIN q_table) > Cardinality(DOMAIN UsedTable(action_dim, reset(env)))

\* the line run_episode goes to from each line of its loop in training mode
NextLine ==
    ("while" :> "step") @@ ("step" :> "update_q") @@ ("update_q" :> "remember")
    @@ ("remember" :> "train_model") @@ ("train_model" :> "advance")
    @@ ("advance" :> "while")

\* C16: in training mode every iteration of the loop goes select action,
\* env.step, update_q, remember, train_model, advance state, in this order;
\* the environment steps once and one transition is pushed per iteration; the
\* transition pushed, and the one update_q uses, is (the state the action was
\* chosen in, the action, the state env.step returned); within an episode the
\* next_state of a pushed transition is the state of the one pushed after it.
C16_TrainingStepOrder ==
    [][(frame.pc \in DOMAIN NextLine /\ frame.train) =>
          /\ frame'.pc = NextLine[frame.pc]
          /\ env' # env <=> frame.pc = "step"
          /\ frame.pc = "step" =>
                /\ env'.steps = env.steps + 1
                /\ frame'.result.state = _get_state(env')
          /\ frame.pc \in {"step", "update_q", "remember", "train_model"} =>
                /\ frame'.state = frame.state /\ frame'.action = frame.action
                /\ frame.pc # "step" => frame'.result = frame.result
          /\ frame.pc = "update_q" =>
                TDRule(q_table, q_table', action_dim, _state_key(frame.state),
                       _state_key(_get_state(env)), frame.action,
                       frame.result.reward, alpha, gamma)
          /\ q_table' # q_table => frame.pc = "update_q"
          /\ memory' # memory <=> frame.pc = "remember"
          /\ frame.pc = "remember" =>
                /\ memory' = Append(memory, <<frame.state, frame.action, _get_state(env)>>)
                /\ env.steps >= 2 => memory[Len(memory)][3] = frame.state
          /\ frame.pc = "advance" => frame'.state = _get_state(env)]_vars

\* the second transition of a training episode has been pushed: it starts in
\* the state the first one ended in, and ends in another state
C16_Witness ==
    /\ frame.pc = "train_model" /\ frame.train /\ env.steps = 2
    /\ Len(memory) >= 2
    /\ memory[Len(memory) - 1][3] = memory[Len(memory)][1]
    /\ memory[Len(memory)][1] # memory[Len(memory)][3]
    /\ memory[Len(memory)] = <<frame.state, frame.action, frame.result.state>>

\* C17: the value run_episode has accumulated to return (total_reward, line
\* 19) is the sum of the step rewards and is always 0 or -1: a step's reward is
\* -1 exactly when the person stands on the ditch after it and 0 otherwise, and
\* a step with reward -1 is the last step of its episode.
C17_ReturnZeroOrMinusOne ==
    frame.pc \in DOMAIN NextLine =>
        /\ frame.total_reward \in {Zero, RNeg(One)}
        /\ "result" \in DOMAIN frame =>
              frame.result.reward = IF OnDitch(env) THEN RNeg(One) ELSE Zero
        /\ (frame.pc = "step" /\ env.steps > 0) => ~OnDitch(env)

\* -1 / (1 - gamma): the value of a reward of -1 at every step for ever
QFloor == LET d == RSub(One, gamma) IN RNeg(R(d[2], d[1]))

\* C19: in GridWorld training with the default alpha = 0.1 and gamma = 0.95
\* every value stored in the Q-table is within [-1 / (1 - gamma), 0]: no
\* action-value ever becomes positive.
C19_ValuesInRange ==
    \A key \in DOMAIN q_table : \A a \in DOMAIN q_table[key] :
        RLe(QFloor, q_table[key][a]) /\ RLe(q_table[key][a], Zero)

\* a training episode has updated, with reward -1, an entry that an earlier
\* update with reward -1 had left at -0.1: it is now -0.19
C19_Witness ==
    /\ frame.pc = "remember" /\ frame.train
    /\ frame.result.reward = RNeg(One)
    /\ q_table[_state_key(frame.state)][frame.action] = R(-19, 100)

(***************************************************************************)
(* Further claims about the two episode loops (SpecEnv).                   *)
(***************************************************************************)
\* WorldEnv: the agent is within 0.5 of the danger zone
InDanger(self) == Within(self.pos, self.danger, danger_radius)

\* C12: a step on which the hazard condition is met reports done = True
\* (GridWorld.step: the person stands on the ditch after the move;
\* WorldEnv.step: the new position is within 0.5 of the danger zone), and the
\* episode loop that gets it takes no further step.
C12_HazardEndsEpisode ==
    [][/\ frame.pc = "step" => (OnDitch(env') => frame'.result.done)
       /\ tframe.pc = "step" => (InDanger(wenv') => tframe'.done)
       /\ (frame.pc = "while" /\ env.steps > 0 /\ OnDitch(env)) => frame'.pc # "step"
       /\ (tframe.pc = "while" /\ wenv.step_ctr > 0 /\ InDanger(wenv))
             => tframe'.pc # "step"]_vars

====
